---- MODULE Spec2Model ----
(***************************************************************************)
(* SCAR function descriptor (src/Scar/aws_lambda.py): the name validator,  *)
(* the config file store, the attribute binder and the archive builder.    *)
(*                                                                         *)
(* Python strings are TLA+ strings, read character by character with       *)
(* SubSeq.  Python's None is the reserved value None below, which no       *)
(* program string equals.                                                  *)
(***************************************************************************)
EXTENDS FiniteSets, Integers, Sequences, TLC

VARIABLES
    candidate,      \* name validator: the string handed to is_valid_name
    shape,          \* name validator: how the candidate was put together
    verdict,        \* name validator: what is_valid_name returned
    self,           \* the AWSLambda descriptor's fields
    exit_status,    \* the process: "running", "success" (exit 0), "failed", "error"
    pc,             \* the run's position: "start", "configured", "bound"
    aws_calls,      \* calls made on aws_client, in order
    log,            \* what the run logged: the kinds of message
    config_file,    \* ~/.scar/scar.cfg: <<>> when absent, else <<its [scar] section>>
    zip_file,       \* the archive at zip_file_path: the entry names, in order
    fs_files,       \* files below the extra payload directory, relative paths
    args,           \* the parsed arguments last bound, in __dict__ order
    last_async,     \* history: <<the argument of the last set_async call>>, <<>> before it
    prev_self,      \* history: the descriptor before the last call on it
    last_call       \* history: the last call made on the descriptor, <<method, argument>>

vars == <<candidate, shape, verdict, self, exit_status, pc, aws_calls,
          log, config_file, zip_file, fs_files, args, last_async,
          prev_self, last_call>>

None == "<None>"

Ch(s, i) == SubSeq(s, i, i)

\* Concatenation of Op(ps[1]), Op(ps[2]), ... in order.
FlatMap(ps, Op(_)) ==
    LET f[i \in 0..Len(ps)] == IF i = 0 THEN <<>> ELSE f[i-1] \o Op(ps[i])
    IN  f[Len(ps)]

(***************************************************************************)
(* The regular expression of is_valid_name, as Python's backtracking       *)
(* matcher runs it.  Every piece maps a position p (the number of          *)
(* characters consumed) to the positions it can end at, in the order the   *)
(* matcher tries them: greedy repetitions longest first, an optional group *)
(* present first and absent last.  pattern.match takes the first position  *)
(* at which the whole pattern succeeds.                                    *)
(***************************************************************************)
LowerChars == {"a","b","c","d","e","f","g","h","i","j","k","l","m",
               "n","o","p","q","r","s","t","u","v","w","x","y","z"}
UpperChars == {"A","B","C","D","E","F","G","H","I","J","K","L","M",
               "N","O","P","Q","R","S","T","U","V","W","X","Y","Z"}
DigitChars == {"0","1","2","3","4","5","6","7","8","9"}
\* [a-zA-Z-]
PartitionChars == LowerChars \cup UpperChars \cup {"-"}
\* [a-zA-Z0-9-_]
NameChars == LowerChars \cup UpperChars \cup DigitChars \cup {"-", "_"}

\* How many characters of class C follow position p.
RECURSIVE RunLen(_, _, _)
RunLen(s, C, p) ==
    IF p < Len(s) /\ Ch(s, p + 1) \in C THEN 1 + RunLen(s, C, p + 1) ELSE 0

\* <<hi, hi-1, ..., lo>>, empty when hi < lo.
Down(hi, lo) == [i \in 1..(hi - lo + 1) |-> hi - i + 1]

Lit(s, lit, p) ==
    IF p + Len(lit) <= Len(s) /\ SubSeq(s, p + 1, p + Len(lit)) = lit
    THEN <<p + Len(lit)>> ELSE <<>>
Plus(s, C, p) == Down(p + RunLen(s, C, p), p + 1)
Star(s, C, p) == Down(p + RunLen(s, C, p), p)
Exactly(s, C, n, p) == IF RunLen(s, C, p) >= n THEN <<p + n>> ELSE <<>>
Opt(ends, p) == ends \o <<p>>

\* (arn:(aws[a-zA-Z-]*)?:lambda:)?
ArnGroup(s, p) ==
    Opt(FlatMap(FlatMap(Lit(s, "arn:", p),
            LAMBDA q : Opt(FlatMap(Lit(s, "aws", q),
                                   LAMBDA r : Star(s, PartitionChars, r)), q)),
            LAMBDA q : Lit(s, ":lambda:", q)), p)

\* ([a-z]{2}(-gov)?-[a-z]+-\d{1}:)?
RegionGroup(s, p) ==
    Opt(FlatMap(FlatMap(FlatMap(FlatMap(FlatMap(FlatMap(
            Exactly(s, LowerChars, 2, p),
            LAMBDA q : Opt(Lit(s, "-gov", q), q)),
            LAMBDA q : Lit(s, "-", q)),
            LAMBDA q : Plus(s, LowerChars, q)),
            LAMBDA q : Lit(s, "-", q)),
            LAMBDA q : Exactly(s, DigitChars, 1, q)),
            LAMBDA q : Lit(s, ":", q)), p)

\* (\d{12}:)?
AccountGroup(s, p) ==
    Opt(FlatMap(Exactly(s, DigitChars, 12, p), LAMBDA q : Lit(s, ":", q)), p)

\* (function:)?
FunctionGroup(s, p) == Opt(Lit(s, "function:", p), p)

\* ([a-zA-Z0-9-_]+)
NameGroup(s, p) == Plus(s, NameChars, p)

\* (:(\$LATEST|[a-zA-Z0-9-_]+))?
QualifierGroup(s, p) ==
    Opt(FlatMap(Lit(s, ":", p),
                LAMBDA q : Lit(s, "$LATEST", q) \o Plus(s, NameChars, q)), p)

\* The end positions of the whole pattern from position 0, in matcher order.
aws_name_regex(s) ==
    FlatMap(FlatMap(FlatMap(FlatMap(FlatMap(
        ArnGroup(s, 0),
        LAMBDA p : RegionGroup(s, p)),
        LAMBDA p : AccountGroup(s, p)),
        LAMBDA p : FunctionGroup(s, p)),
        LAMBDA p : NameGroup(s, p)),
        LAMBDA p : QualifierGroup(s, p))

\* pattern.match(function_name).group(): None when nothing matches.
pattern_match(s) ==
    LET ends == aws_name_regex(s)
    IN  IF ends = <<>> THEN None ELSE SubSeq(s, 1, ends[1])

\* A matcher bug: any match of a prefix counts.
is_valid_name_prefix(function_name) ==
    IF function_name # None /\ function_name # ""
    THEN pattern_match(function_name) # None
    ELSE FALSE

\* The truth value of the result: the None Python returns when nothing matches
\* and False both count as false, every caller testing the result with `not`.
is_valid_name(function_name) ==
    IF function_name # None /\ function_name # ""
    THEN /\ pattern_match(function_name) # None
         /\ pattern_match(function_name) = function_name
    ELSE FALSE

(***************************************************************************)
(* The descriptor after AWSLambda.__init__.  Fields no operation below     *)
(* reads or writes (event, function_arn, log_stream_name, request_id,      *)
(* output, runtime, log_retention_policy_in_days) are left out.            *)
(***************************************************************************)
EmptyDict == [k \in {} |-> ""]

AWSLambda ==
    [ asynchronous_call   |-> FALSE,
      code                |-> None,
      container_arguments |-> None,
      description         |-> "Automatically generated lambda function",
      environment         |-> EmptyDict,
      extra_payload       |-> None,
      handler             |-> None,
      image_id            |-> None,
      invocation_type     |-> "RequestResponse",
      log_group_name      |-> None,
      log_type            |-> "Tail",
      memory              |-> 512,
      name                |-> None,
      payload             |-> "{}",
      recursive           |-> FALSE,
      region              |-> "us-east-1",
      role                |-> None,
      scar_call           |-> None,
      script              |-> None,
      tags                |-> EmptyDict,
      time                |-> 300,
      timeout_threshold   |-> 10,
      udocker_dir         |-> "/tmp/home/.udocker",
      udocker_tarball     |-> "/var/task/udocker-1.1.0-RC2.tar.gz" ]

(***************************************************************************)
(* Name validator harness: candidates are put together from segments, so   *)
(* that what the grammar says about a candidate is known from how it was   *)
(* built and not from the matcher.                                         *)
(***************************************************************************)
MaxNameLen == 2

NameAlphabet == {"a", "7", "-", "_"}

RECURSIVE StringsUpTo(_, _)
StringsUpTo(A, n) ==
    IF n = 0 THEN {""}
    ELSE LET S == StringsUpTo(A, n - 1) IN S \cup {s \o c : s \in S, c \in A}

ArnPrefixes  == {"", "arn:aws:lambda:", "arn:aws-us-gov:lambda:"}
Regions      == {"", "us-east-1:", "us-gov-west-1:"}
BadRegions   == {"usa-east-1:", "us-east-12:", "us-east:", "US-east-1:"}
Accounts     == {"", "123456789012:"}
FunctionTags == {"", "function:"}
Names        == (StringsUpTo(NameAlphabet, MaxNameLen) \ {""})
                    \cup {"us-east-1", "123456789012", "function"}
Qualifiers   == {"", ":1", ":$LATEST", ":prod"}
Faults       == {"none", "extra_head", "extra_tail", "extra_colon",
                 "swapped", "bad_region"}

Shapes ==
    { sh \in [pre : ArnPrefixes, reg : Regions \cup BadRegions, acc : Accounts,
              fun : FunctionTags, nam : Names, qual : Qualifiers, fault : Faults] :
        /\ (sh.fault = "bad_region") <=> (sh.reg \in BadRegions)
        /\ (sh.fault = "swapped") => (sh.reg # "" /\ sh.acc # "") }

AbsentShape == [pre |-> "", reg |-> "", acc |-> "", fun |-> "", nam |-> "",
                qual |-> "", fault |-> "absent"]

Build(sh) ==
    LET straight == sh.pre \o sh.reg \o sh.acc \o sh.fun \o sh.nam \o sh.qual
    IN  CASE sh.fault = "swapped"     ->
                sh.pre \o sh.acc \o sh.reg \o sh.fun \o sh.nam \o sh.qual
          [] sh.fault = "extra_head"  -> "!" \o straight
          [] sh.fault = "extra_tail"  -> straight \o "!"
          [] sh.fault = "extra_colon" -> straight \o ":"
          [] OTHER                    -> straight

NameIdle ==
    /\ candidate = None /\ shape = AbsentShape /\ verdict = <<>>

DescriptorIdle ==
    /\ self = AWSLambda
    /\ exit_status = "running"
    /\ pc = "start"
    /\ aws_calls = <<>>
    /\ log = {}
    /\ config_file = <<>>
    /\ zip_file = <<>>
    /\ fs_files = {}
    /\ args = <<>>
    /\ last_async = <<>>
    /\ prev_self = AWSLambda
    /\ last_call = <<>>

descVars == <<self, exit_status, pc, aws_calls, log, config_file,
              zip_file, fs_files, args, last_async, prev_self, last_call>>
nameVars == <<candidate, shape, verdict>>

\* The caller's string: built from segments, empty, or None.
NameInit ==
    /\ \/ \E sh \in Shapes : candidate = Build(sh) /\ shape = sh
       \/ \E c \in {None, ""} : candidate = c /\ shape = AbsentShape
    /\ verdict = <<>>
    /\ DescriptorIdle

\* is_valid_name(candidate) is called; its truth value is recorded.
Validate ==
    /\ verdict = <<>>
    /\ verdict' = <<is_valid_name(candidate)>>
    /\ UNCHANGED <<candidate, shape>>
    /\ UNCHANGED descVars

NameNext == Validate
SpecName == NameInit /\ [][NameNext]_vars

Machine ==
    [ self        |-> self,
      exit_status |-> exit_status,
      aws_calls   |-> aws_calls,
      log         |-> log,
      config_file |-> config_file,
      zip_file    |-> zip_file,
      exc         |-> None ]

Live(m) == m.exit_status = "running" /\ m.exc = None

Raise(m, e) == [m EXCEPT !.exc = e]
Logged(m, msg) == [m EXCEPT !.log = @ \cup {msg}]
Called(m, method, arg) == [m EXCEPT !.aws_calls = Append(@, <<method, arg>>)]

\* scar_utils.finish_failed_execution: the run ends with a failure status.
finish_failed_execution(m) == [m EXCEPT !.exit_status = "failed"]
\* scar_utils.finish_successful_execution: the run ends with status 0.
finish_successful_execution(m) == [m EXCEPT !.exit_status = "success"]

\* Python truthiness of a string-or-None value.
Truthy(v) == v # None /\ v # ""

\* str(n) for n >= 0, and int(s) for a string of digits.
DigitOf == [d \in 0..9 |-> Ch("0123456789", d + 1)]
RECURSIVE str(_)
str(n) == IF n < 10 THEN DigitOf[n] ELSE str(n \div 10) \o DigitOf[n % 10]
ValueOf(c) == CHOOSE d \in 0..9 : DigitOf[d] = c
RECURSIVE int(_)
int(s) ==
    IF Len(s) = 1 THEN ValueOf(s)
    ELSE 10 * int(SubSeq(s, 1, Len(s) - 1)) + ValueOf(Ch(s, Len(s)))
\* str(b) for a bool.
StrBool(b) == IF b THEN "True" ELSE "False"

set_cont_args(m, container_arguments) ==
    IF ~Live(m) THEN m
    ELSE [m EXCEPT !.self.container_arguments = container_arguments]

set_asynchronous_call_parameters(m) ==
    [m EXCEPT !.self.asynchronous_call = TRUE,
              !.self.invocation_type = "Event",
              !.self.log_type = "None"]

\* A slip: the log capture mode is left as it was.
set_request_response_keeps_log_type(m) ==
    [m EXCEPT !.self.asynchronous_call = FALSE,
              !.self.invocation_type = "RequestResponse"]

set_request_response_call_parameters(m) ==
    [m EXCEPT !.self.asynchronous_call = FALSE,
              !.self.invocation_type = "RequestResponse",
              !.self.log_type = "Tail"]

set_async(m, asynchronous_call) ==
    IF ~Live(m) THEN m
    ELSE IF asynchronous_call
         THEN set_asynchronous_call_parameters(m)
         ELSE set_request_response_call_parameters(m)

\* scar_call is the __name__ of the function the parser bound to the subcommand.
set_func(m, scar_call) ==
    IF ~Live(m) THEN m ELSE [m EXCEPT !.self.scar_call = scar_call]

set_name(m, name) ==
    IF ~Live(m) THEN m
    ELSE IF ~is_valid_name(name)
         THEN finish_failed_execution(Logged(m, "invalid lambda function name"))
         ELSE [m EXCEPT !.self.name = name]

\* aws_client.create_function_name: a name derived from the image id, every
\* character a name cannot hold replaced by '-'.
RECURSIVE Sanitized(_)
Sanitized(s) ==
    IF s = "" THEN ""
    ELSE (IF Ch(s, 1) \in NameChars THEN Ch(s, 1) ELSE "-") \o Sanitized(Tail(s))
create_function_name(image_id) == "scar-" \o Sanitized(image_id)

\* hasattr(self, 'name'): __init__ assigns self.name, so the attribute exists.
hasattr_name(m) == TRUE

set_image_id(m, image_id) ==
    IF ~Live(m) THEN m
    ELSE LET m1 == [m EXCEPT !.self.image_id = image_id]
         IN  IF ~hasattr_name(m1) \/ m1.self.name = ""
             THEN set_name(Called(m1, "create_function_name", image_id),
                           create_function_name(image_id))
             ELSE m1

\* aws_client.check_memory: a memory size within the provider's limits is
\* returned as it is.
check_memory(memory) == memory

set_memory(m, memory) ==
    IF ~Live(m) THEN m
    ELSE [Called(m, "check_memory", memory) EXCEPT !.self.memory = check_memory(memory)]

set_script(m, script) ==
    IF ~Live(m) THEN m ELSE [m EXCEPT !.self.script = script]

set_extra_payload(m, extra_payload) ==
    IF ~Live(m) THEN m ELSE [m EXCEPT !.self.extra_payload = extra_payload]

\* self.environment['Variables'][key] = value
set_evironment_variable(m, key, value) ==
    IF ~Live(m) THEN m
    ELSE [m EXCEPT !.self.environment =
            [k \in DOMAIN @ \cup {key} |-> IF k = key THEN value ELSE @[k]]]

set_required_environment_variables(m) ==
    LET m1 == set_evironment_variable(m, "UDOCKER_DIR", m.self.udocker_dir)
        m2 == set_evironment_variable(m1, "UDOCKER_TARBALL", m.self.udocker_tarball)
        m3 == set_evironment_variable(m2, "TIMEOUT_THRESHOLD",
                                      str(m.self.timeout_threshold))
        m4 == set_evironment_variable(m3, "RECURSIVE", StrBool(m.self.recursive))
    IN  set_evironment_variable(m4, "IMAGE_ID", m.self.image_id)

\* s.split(sep) for a one-character separator: the pieces, in order.
RECURSIVE split(_, _)
split(s, sep) ==
    LET n == RunLen(s, {c \in {Ch(s, i) : i \in 1..Len(s)} : c # sep}, 0)
    IN  IF n = Len(s) THEN <<s>>
        ELSE <<SubSeq(s, 1, n)>> \o split(SubSeq(s, n + 2, Len(s)), sep)

set_environment_variables(m, variables) ==
    LET f[i \in 0..Len(variables)] ==
            IF i = 0 THEN m
            ELSE LET parsed_env_var == split(variables[i], "=")
                     key == "CONT_VAR_" \o parsed_env_var[1]
                     before == f[i-1]
                 IN  IF ~Live(before) THEN before
                     ELSE IF Len(parsed_env_var) < 2 THEN Raise(before, "IndexError")
                     ELSE set_evironment_variable(before, key, parsed_env_var[2])
    IN  f[Len(variables)]

\* aws_client.get_user_name_or_id: the acting identity.
get_user_name_or_id == "user"

set_tags(m) ==
    IF ~Live(m) THEN m
    ELSE [Called(m, "get_user_name_or_id", None) EXCEPT
            !.self.tags = [k \in {"createdby", "owner"} |->
                             IF k = "createdby" THEN "scar" ELSE get_user_name_or_id]]

validate_lambda_configuration(m) ==
    IF ~Live(m) THEN m
    ELSE IF ~Truthy(m.self.role) \/ m.self.role = ""
         THEN finish_failed_execution(Logged(m, "specify first a lambda role"))
         ELSE m

(***************************************************************************)
(* Parsed arguments: args.__dict__ as the sequence of its <<attr, value>>  *)
(* entries in key order, a value being <<>> for None and <<v>> otherwise.  *)
(***************************************************************************)
get_argument_value(arguments, attr) ==
    LET hits == {i \in 1..Len(arguments) : arguments[i][1] = attr}
    IN  IF hits = {} THEN <<>> ELSE arguments[CHOOSE i \in hits : TRUE][2]

\* Python truthiness of an argument value: None, 0, '' and [] are false.
ArgTruthy(attr, v) ==
    /\ v # <<>>
    /\ CASE attr \in {"memory", "time"}  -> v[1] # 0
         [] attr \in {"env", "cont_args"} -> v[1] # <<>>
         [] OTHER                         -> v[1] # ""

update_function_attributes(m, arguments) ==
    LET m1 == IF ArgTruthy("memory", get_argument_value(arguments, "memory"))
              THEN Called(m, "update_function_memory", m.self.name) ELSE m
        m2 == IF ArgTruthy("time", get_argument_value(arguments, "time"))
              THEN Called(m1, "update_function_timeout", m.self.name) ELSE m1
    IN  IF ~Live(m) THEN m
        ELSE IF ArgTruthy("env", get_argument_value(arguments, "env"))
             THEN Called(m2, "update_function_env_variables", m.self.name) ELSE m2

\* aws_client.check_function_name_exists: the run fails when the name is
\* already taken remotely.
check_function_name_exists(m, name, remote_exists) ==
    LET m1 == Called(m, "check_function_name_exists", name)
    IN  IF remote_exists THEN finish_failed_execution(m1) ELSE m1

\* aws_client.check_function_name_not_exists: the run fails when the name is
\* not there remotely.
check_function_name_not_exists(m, name, remote_exists) ==
    LET m1 == Called(m, "check_function_name_not_exists", name)
    IN  IF ~remote_exists THEN finish_failed_execution(m1) ELSE m1

\* A slip: the invoke operation is forgotten.
check_function_name_without_run(m, remote_exists) ==
    IF ~Live(m) THEN m
    ELSE IF Truthy(m.self.name)
         THEN IF m.self.scar_call = "init"
              THEN check_function_name_exists(m, m.self.name, remote_exists)
              ELSE IF m.self.scar_call = "rm"
                   THEN check_function_name_not_exists(m, m.self.name, remote_exists)
                   ELSE m
         ELSE m

check_function_name(m, remote_exists) ==
    IF ~Live(m) THEN m
    ELSE IF Truthy(m.self.name)
         THEN IF m.self.scar_call = "init"
              THEN check_function_name_exists(m, m.self.name, remote_exists)
              ELSE IF m.self.scar_call = "rm" \/ m.self.scar_call = "run"
                   THEN check_function_name_not_exists(m, m.self.name, remote_exists)
                   ELSE m
         ELSE m

(***************************************************************************)
(* The payload: json.dumps of a one-key dict, and the escaping of          *)
(* scar_utils.                                                             *)
(***************************************************************************)
\* s with every character c replaced by Rep(c).
MapChars(s, Rep(_)) ==
    LET f[i \in 0..Len(s)] == IF i = 0 THEN "" ELSE f[i-1] \o Rep(Ch(s, i))
    IN  f[Len(s)]

\* json.dumps of a str.
JsonString(v) ==
    "\"" \o MapChars(v, LAMBDA c : CASE c = "\"" -> "\\\""
                                     [] c = "\\" -> "\\\\"
                                     [] c = "\n" -> "\\n"
                                     [] OTHER    -> c) \o "\""

create_payload(key, value) == [k \in {key} |-> value]

\* json.dumps of a dict with one key.
json_dumps(payload) ==
    LET key == CHOOSE k \in DOMAIN payload : TRUE
    IN  "{" \o JsonString(key) \o ": " \o JsonString(payload[key]) \o "}"

set_payload(m, payload) ==
    IF ~Live(m) THEN m ELSE [m EXCEPT !.self.payload = json_dumps(payload)]

\* scar_utils.escape_string: newlines and quotes are escaped.
escape_string(value) ==
    MapChars(value, LAMBDA c : CASE c = "\n" -> "\\n"
                                 [] c = "\"" -> "\\\""
                                 [] OTHER    -> c)

\* scar_utils.escape_list: the escaped values as one bracketed list.
escape_list(values) ==
    LET f[i \in 0..Len(values)] ==
            IF i = 0 THEN ""
            ELSE f[i-1] \o (IF i = 1 THEN "" ELSE ", ")
                        \o "\"" \o escape_string(values[i]) \o "\""
    IN  "[" \o f[Len(values)] \o "]"

\* The text of the script file the parser opened for the invoke operation.
ScriptText == "echo \"hi\"\nexit"

\* self.script.read()
get_escaped_script(m) == escape_string(ScriptText)

get_parsed_cont_args(m) == escape_list(m.self.container_arguments)

\* The keys of the JSON object text p holds at its top level: the quoted
\* strings followed by ':' outside any string.
RECURSIVE JsonKeysFrom(_, _, _, _)
JsonKeysFrom(p, i, start, acc) ==
    \* start = 0: outside a string; start > 0: inside the string opened at start
    IF i > Len(p) THEN acc
    ELSE IF start = 0
         THEN JsonKeysFrom(p, i + 1, IF Ch(p, i) = "\"" THEN i ELSE 0, acc)
         ELSE IF Ch(p, i) = "\\" THEN JsonKeysFrom(p, i + 2, start, acc)
         ELSE IF Ch(p, i) = "\""
              THEN JsonKeysFrom(p, i + 1, 0,
                       IF i < Len(p) /\ Ch(p, i + 1) = ":"
                       THEN acc \cup {SubSeq(p, start + 1, i - 1)} ELSE acc)
              ELSE JsonKeysFrom(p, i + 1, start, acc)
JsonKeys(p) == JsonKeysFrom(p, 1, 0, {})

(***************************************************************************)
(* The archive builder.  The archive is the sequence of its entry names    *)
(* (a zip file may hold the same name twice).  A file below the extra      *)
(* payload directory is the sequence of its path components relative to    *)
(* that directory, <<"s", "c">> for s/c.                                   *)
(***************************************************************************)
\* os.path.join(a, b) on POSIX.
path_join(a, b) ==
    IF b # "" /\ Ch(b, 1) = "/" THEN b
    ELSE IF a = "" \/ Ch(a, Len(a)) = "/" THEN a \o b
    ELSE a \o "/" \o b

\* os.path.normpath of a relative path: empty and '.' components dropped,
\* '..' taking back the component before it.
normpath(path) ==
    LET comps == split(path, "/")
        f[i \in 0..Len(comps)] ==
            IF i = 0 THEN <<>>
            ELSE LET before == f[i-1]
                 IN  IF comps[i] = "" \/ comps[i] = "." THEN before
                     ELSE IF comps[i] = ".." /\ before # <<>>
                                /\ before[Len(before)] # ".."
                          THEN SubSeq(before, 1, Len(before) - 1)
                          ELSE Append(before, comps[i])
        kept == f[Len(comps)]
        g[i \in 0..Len(kept)] ==
            IF i = 0 THEN ""
            ELSE IF i = 1 THEN kept[1] ELSE g[i-1] \o "/" \o kept[i]
    IN  IF kept = <<>> THEN "." ELSE g[Len(kept)]

\* The entry name ZipFile.write gives a file stored under arcname.
ArcName(arcname) == normpath(arcname)

\* fn[n:]
SliceFrom(fn, n) == IF n >= Len(fn) THEN "" ELSE SubSeq(fn, n + 1, Len(fn))

\* The path os.walk and os.path.join give the file rel below target_dir.
WalkedPath(target_dir, rel) ==
    LET f[i \in 0..Len(rel)] ==
            IF i = 0 THEN target_dir ELSE path_join(f[i-1], rel[i])
    IN  f[Len(rel)]

\* walk: the files below target_dir in the order os.walk yields them.
zip_folder(m, target_dir, walk) ==
    LET rootlen == Len(target_dir) + 1
        f[i \in 0..Len(walk)] ==
            IF i = 0 THEN m.zip_file
            ELSE LET fn == WalkedPath(target_dir, walk[i])
                 IN  Append(f[i-1], ArcName("extra/" \o SliceFrom(fn, rootlen)))
    IN  [m EXCEPT !.zip_file = f[Len(walk)]]

\* The archive is rebuilt from nothing (mode 'w'); self.name + '.py' raises
\* TypeError when the name is None.
create_zip_file(m, walk) ==
    IF ~Live(m) THEN m
    ELSE IF m.self.name = None THEN Raise(m, "TypeError")
    ELSE LET function_name == m.self.name \o ".py"
             m1 == [m EXCEPT !.zip_file =
                        << ArcName(function_name), ArcName("udocker"),
                           ArcName("udocker-1.1.0-RC2.tar.gz") >>]
             m2 == IF Truthy(m.self.script)
                   THEN set_evironment_variable(
                            [m1 EXCEPT !.zip_file = Append(@, ArcName("init_script.sh"))],
                            "INIT_SCRIPT_PATH", "/var/task/init_script.sh")
                   ELSE m1
         IN  IF Truthy(m.self.extra_payload)
             THEN set_evironment_variable(
                      zip_folder(m2, m.self.extra_payload, walk),
                      "EXTRA_PAYLOAD", "/var/task/extra/")
             ELSE m2

\* self.code = {"ZipFile": <the archive read back>}
set_code(m, walk) ==
    LET m1 == create_zip_file(m, walk)
    IN  IF ~Live(m1) THEN m1 ELSE [m1 EXCEPT !.self.code = m1.zip_file]

(***************************************************************************)
(* The attribute binder.                                                   *)
(***************************************************************************)
\* getattr(self, 'set_' + attr)(value): the setters that take one value and
\* that the arguments below can name; any other name raises AttributeError.
CallSetter(m, attr, value) ==
    CASE attr = "async"         -> set_async(m, value)
      [] attr = "cont_args"     -> set_cont_args(m, value)
      [] attr = "extra_payload" -> set_extra_payload(m, value)
      [] attr = "func"          -> set_func(m, value)
      [] attr = "image_id"      -> set_image_id(m, value)
      [] attr = "memory"        -> set_memory(m, value)
      [] attr = "name"          -> set_name(m, value)
      [] attr = "script"        -> set_script(m, value)
      [] attr = "environment_variables" -> set_environment_variables(m, value)
      [] OTHER                  -> Raise(m, "AttributeError")

\* except Exception as ex: logging.error(ex)
Caught(m) == IF m.exc = None THEN m ELSE [Logged(m, m.exc) EXCEPT !.exc = None]

\* The loop over args.__dict__.keys().
BindLoop(m, arguments) ==
    LET f[i \in 0..Len(arguments)] ==
            IF i = 0 THEN m
            ELSE LET before == f[i-1]
                 IN  IF ~Live(before) \/ arguments[i][2] = <<>> THEN before
                     ELSE Caught(CallSetter(before, arguments[i][1],
                                            arguments[i][2][1]))
    IN  f[Len(arguments)]

\* The payload of the invoke operation (the two ifs that end set_attributes).
RunPayload(m, arguments) ==
    LET m1 == IF ArgTruthy("script", get_argument_value(arguments, "script"))
              THEN set_payload(m, create_payload("script", get_escaped_script(m)))
              ELSE m
    IN  IF ArgTruthy("cont_args", get_argument_value(arguments, "cont_args"))
        THEN set_payload(m1, create_payload("cmd_args", get_parsed_cont_args(m1)))
        ELSE m1

\* A slip: the handler names the supervisor's module, not the function.
DeriveHandlerFixedModule(m) ==
    IF Live(m) /\ Truthy(m.self.name)
    THEN [m EXCEPT !.self.handler = "scarsupervisor.lambda_handler",
                   !.self.log_group_name = "/aws/lambda/" \o m.self.name]
    ELSE m

\* if self.name: the handler and the log group are derived from it.
DeriveHandler(m) ==
    IF Live(m) /\ Truthy(m.self.name)
    THEN [m EXCEPT !.self.handler = m.self.name \o ".lambda_handler",
                   !.self.log_group_name = "/aws/lambda/" \o m.self.name]
    ELSE m

set_attributes(m, arguments, remote_exists, walk) ==
    LET m1 == BindLoop(m, arguments)
        m2 == check_function_name(m1, remote_exists)
        m3 == set_required_environment_variables(m2)
        m4 == DeriveHandler(m3)
    IN  IF ~Live(m4) THEN m4
        ELSE IF m4.self.scar_call = "init" THEN set_code(set_tags(m4), walk)
        ELSE IF m4.self.scar_call = "run"
             THEN RunPayload(update_function_attributes(m4, arguments), arguments)
             ELSE m4

(***************************************************************************)
(* The config file store.  The [scar] section of the file is the function  *)
(* from its keys to their values, all strings.                             *)
(***************************************************************************)
ConfigKeys == {"lambda_description", "lambda_memory", "lambda_time",
               "lambda_region", "lambda_role", "lambda_timeout_threshold"}

\* A slip: the role defaults to the description's placeholder text.
get_default_json_config_with_role(m) ==
    [k \in ConfigKeys |->
        CASE k = "lambda_description"       -> m.self.description
          [] k = "lambda_memory"            -> str(m.self.memory)
          [] k = "lambda_time"              -> str(m.self.time)
          [] k = "lambda_region"            -> m.self.region
          [] k = "lambda_role"              -> "role"
          [] k = "lambda_timeout_threshold" -> str(m.self.timeout_threshold)]

\* The values as configparser writes them: str() of each.
get_default_json_config(m) ==
    [k \in ConfigKeys |->
        CASE k = "lambda_description"       -> m.self.description
          [] k = "lambda_memory"            -> str(m.self.memory)
          [] k = "lambda_time"              -> str(m.self.time)
          [] k = "lambda_region"            -> m.self.region
          [] k = "lambda_role"              -> ""
          [] k = "lambda_timeout_threshold" -> str(m.self.timeout_threshold)]

create_default_config_file(m) ==
    finish_successful_execution(
        Logged([m EXCEPT !.config_file = <<get_default_json_config(m)>>],
               "config file created"))

\* scar_config.get(key, fallback) and scar_config.getint(key, fallback)
ConfigGet(scar_config, key, fallback) ==
    IF key \in DOMAIN scar_config THEN scar_config[key] ELSE fallback
ConfigGetInt(scar_config, key, fallback) ==
    IF key \in DOMAIN scar_config THEN int(scar_config[key]) ELSE fallback

parse_config_file_values(m) ==
    LET scar_config == m.config_file[1]
    IN  [m EXCEPT
          !.self.role = ConfigGet(scar_config, "lambda_role", @),
          !.self.region = ConfigGet(scar_config, "lambda_region", @),
          !.self.memory = ConfigGetInt(scar_config, "lambda_memory", @),
          !.self.time = ConfigGetInt(scar_config, "lambda_time", @),
          !.self.description = ConfigGet(scar_config, "lambda_description", @),
          !.self.timeout_threshold =
                ConfigGetInt(scar_config, "lambda_timeout_threshold", @)]

check_config_file(m) ==
    IF ~Live(m) THEN m
    ELSE validate_lambda_configuration(
            IF m.config_file # <<>>
            THEN parse_config_file_values(m)
            ELSE create_default_config_file(m))

(***************************************************************************)
(* The run.  One process constructs a descriptor, checks the config file   *)
(* and binds the parsed arguments; the config file and the archive stay on *)
(* disk.  The values read from the config file are defaults the arguments  *)
(* override, so check_config_file comes before set_attributes.             *)
(***************************************************************************)
\* The state after a call returned machine m; an exception nobody caught ends
\* the process with its traceback.
Commit(m) ==
    /\ self' = m.self
    /\ exit_status' = IF m.exc # None THEN m.exc ELSE m.exit_status
    /\ aws_calls' = m.aws_calls
    /\ log' = m.log
    /\ config_file' = m.config_file
    /\ zip_file' = m.zip_file

Running == exit_status = "running"

MaxEnvVars == 2
MaxFiles == 2

RECURSIVE SeqsUpTo(_, _)
SeqsUpTo(S, n) ==
    IF n = 0 THEN {<<>>}
    ELSE LET T == SeqsUpTo(S, n - 1) IN T \cup {Append(t, x) : t \in T, x \in S}

Reverse(q) == [i \in 1..Len(q) |-> q[Len(q) + 1 - i]]

\* The argument bags the parser hands over, in either key order.
ArgBags(funcs, names, images, asyncs, memories, envs, scripts, cont, extra) ==
    LET bags == { << <<"func", <<f>> >>, <<"name", n>>, <<"image_id", i>>,
                     <<"async", a>>, <<"memory", mem>>, <<"env", e>>,
                     <<"script", sc>>, <<"cont_args", c>>,
                     <<"extra_payload", x>> >> :
                  f \in funcs, n \in names, i \in images, a \in asyncs,
                  mem \in memories, e \in envs, sc \in scripts, c \in cont,
                  x \in extra }
    IN  bags \cup {Reverse(b) : b \in bags}

Optional(S) == {<<>>} \cup {<<x>> : x \in S}

BindArgs ==
    ArgBags({"init", "run", "rm", "ls"},
            Optional({"f", "bad name"}),
            Optional({"grycap/cowsay"}),
            Optional(BOOLEAN),
            Optional({1024}),
            Optional(SeqsUpTo({"FOO=bar", "FOO=baz"}, MaxEnvVars) \ {<<>>}),
            Optional({"init.sh"}),
            Optional({<<"ls", "-l">>}),
            {<<>>})

DirForms == {"d", "d/", "./d", "/tmp/d"}
FileUniverse == {<<"a">>, <<"b">>, <<"s", "c">>, <<"s", "t", "d">>}

ZipArgs ==
    ArgBags({"init"},
            Optional({"f", "my-func_1"}),
            Optional({"grycap/cowsay"}),
            {<<>>}, {<<>>}, {<<>>},
            Optional({"init.sh"}),
            {<<>>},
            Optional(DirForms))

\* The orders os.walk can yield files in: a directory's files before those of
\* the directories below it.
Walks(files) ==
    { w \in SeqsUpTo(files, Cardinality(files)) :
        /\ Len(w) = Cardinality(files)
        /\ {w[i] : i \in 1..Len(w)} = files
        /\ \A i \in 1..(Len(w) - 1) : Len(w[i]) <= Len(w[i + 1]) }

FullConfig(role, memory) ==
    [k \in ConfigKeys |->
        CASE k = "lambda_description"       -> "Automatically generated lambda function"
          [] k = "lambda_memory"            -> memory
          [] k = "lambda_time"              -> "300"
          [] k = "lambda_region"            -> "us-east-1"
          [] k = "lambda_role"              -> role
          [] k = "lambda_timeout_threshold" -> "10"]

Roles == {"arn:aws:iam::123456789012:role/x", "arn:aws:iam::123456789012:role/y"}

\* AWSLambda.check_config_file()
CheckConfigFile ==
    /\ pc = "start" /\ Running
    /\ Commit(check_config_file(Machine))
    /\ pc' = "configured"
    /\ prev_self' = self
    /\ last_call' = <<"check_config_file", None>>
    /\ UNCHANGED <<args, last_async, fs_files, nameVars>>

\* AWSLambda.set_attributes(args), the remote side and the directory listing
\* being what they are at that moment.
SetAttributes(universe) ==
    /\ pc = "configured" /\ Running
    /\ \E a \in universe, remote_exists \in BOOLEAN, walk \in Walks(fs_files) :
          /\ Commit(set_attributes(Machine, a, remote_exists, walk))
          /\ args' = a
          /\ last_call' = <<"set_attributes", remote_exists>>
    /\ pc' = "bound"
    /\ prev_self' = self
    /\ UNCHANGED <<last_async, fs_files, nameVars>>

\* The process is over (it exited, or the bound descriptor was consumed) and
\* the tool is started again.
NewRun ==
    /\ ~Running \/ pc \in {"configured", "bound"}
    /\ self' = AWSLambda
    /\ exit_status' = "running"
    /\ pc' = "start"
    /\ aws_calls' = <<>>
    /\ log' = {}
    /\ args' = <<>>
    /\ last_async' = <<>>
    /\ prev_self' = AWSLambda
    /\ last_call' = <<>>
    /\ UNCHANGED <<config_file, zip_file, fs_files, nameVars>>

\* Between two runs the user edits the config file: sets a key or removes one.
UserEditsConfig ==
    /\ ~Running \/ pc \in {"configured", "bound"}
    /\ config_file # <<>>
    /\ "lambda_role" \in DOMAIN config_file[1]
    /\ \/ \E role \in Roles \cup {""} :
            config_file' = <<[config_file[1] EXCEPT !["lambda_role"] = role]>>
       \/ \E memory \in {"512", "1024"} :
            config_file' = <<[config_file[1] EXCEPT !["lambda_memory"] = memory]>>
       \/ \E time \in {"300", "600"} :
            config_file' = <<[config_file[1] EXCEPT !["lambda_time"] = time]>>
    /\ UNCHANGED <<self, exit_status, pc, aws_calls, log, zip_file, fs_files,
                   args, last_async, prev_self, last_call, nameVars>>

UserRemovesRoleKey ==
    /\ ~Running \/ pc \in {"configured", "bound"}
    /\ config_file # <<>>
    /\ "lambda_role" \in DOMAIN config_file[1]
    /\ config_file' = <<[k \in DOMAIN config_file[1] \ {"lambda_role"} |->
                            config_file[1][k]]>>
    /\ UNCHANGED <<self, exit_status, pc, aws_calls, log, zip_file, fs_files,
                   args, last_async, prev_self, last_call, nameVars>>

UserDeletesConfig ==
    /\ ~Running \/ pc \in {"configured", "bound"}
    /\ config_file # <<>>
    /\ config_file' = <<>>
    /\ UNCHANGED <<self, exit_status, pc, aws_calls, log, zip_file, fs_files,
                   args, last_async, prev_self, last_call, nameVars>>

\* The binder: a run on any config file a user can have.
Init ==
    /\ NameIdle
    /\ self = AWSLambda
    /\ exit_status = "running"
    /\ pc = "start"
    /\ aws_calls = <<>>
    /\ log = {}
    /\ config_file \in {<<>>} \cup {<<FullConfig(r, mem)>> :
                                      r \in Roles \cup {""}, mem \in {"512", "1024"}}
    /\ zip_file = <<>>
    /\ fs_files = {}
    /\ args = <<>>
    /\ last_async = <<>>
    /\ prev_self = AWSLambda
    /\ last_call = <<>>

BindAttributes == SetAttributes(BindArgs)
Next == CheckConfigFile \/ BindAttributes
Spec == Init /\ [][Next]_vars

\* The config file store: successive runs on one home directory, the first
\* with no config file.
ConfigInit == NameIdle /\ DescriptorIdle
ConfigNext ==
    \/ CheckConfigFile
    \/ NewRun
    \/ UserEditsConfig
    \/ UserRemovesRoleKey
    \/ UserDeletesConfig
SpecConfig == ConfigInit /\ [][ConfigNext]_vars

\* The archive builder: a create operation with the files of the extra
\* payload directory on disk.
ZipInit ==
    /\ NameIdle
    /\ self = AWSLambda
    /\ exit_status = "running"
    /\ pc = "start"
    /\ aws_calls = <<>>
    /\ log = {}
    /\ config_file \in {<<FullConfig(r, "512")>> : r \in Roles}
    /\ zip_file = <<>>
    /\ fs_files \in {fs \in SUBSET FileUniverse : Cardinality(fs) <= MaxFiles}
    /\ args = <<>>
    /\ last_async = <<>>
    /\ prev_self = AWSLambda
    /\ last_call = <<>>

BuildArchive == SetAttributes(ZipArgs)
ZipNext == CheckConfigFile \/ BuildArchive
SpecZip == ZipInit /\ [][ZipNext]_vars

\* The setters: calls made directly on one descriptor, in any order.
DirectCall(method, argument, m) ==
    /\ Running
    /\ Commit(m)
    /\ prev_self' = self
    /\ last_call' = <<method, argument>>
    /\ UNCHANGED <<pc, args, fs_files, nameVars>>

CallSetAsync ==
    \E asynchronous_call \in BOOLEAN :
        /\ DirectCall("set_async", asynchronous_call,
                      set_async(Machine, asynchronous_call))
        /\ last_async' = <<asynchronous_call>>

CallSetName ==
    \E name \in {"f", "g-1", "bad name", ""} :
        /\ DirectCall("set_name", name, set_name(Machine, name))
        /\ UNCHANGED last_async

CallSetImageId ==
    \E image_id \in {"grycap/cowsay", "ubuntu:16.04"} :
        /\ DirectCall("set_image_id", image_id, set_image_id(Machine, image_id))
        /\ UNCHANGED last_async

CallSetEnvironmentVariables ==
    \E variables \in SeqsUpTo({"FOO=bar", "FOO=baz", "A=1=2", "FOO"}, MaxEnvVars) :
        /\ DirectCall("set_environment_variables", variables,
                      set_environment_variables(Machine, variables))
        /\ UNCHANGED last_async

SetterInit == NameIdle /\ DescriptorIdle
SetterNext ==
    \/ CallSetAsync
    \/ CallSetName
    \/ CallSetImageId
    \/ CallSetEnvironmentVariables
SpecSetters == SetterInit /\ [][SetterNext]_vars

(***************************************************************************)
(* The properties.                                                         *)
(***************************************************************************)
InvocationTriple(d) == <<d.asynchronous_call, d.invocation_type, d.log_type>>

\* C2: after any sequence of setter calls the triple (asynchronous_call,
\* invocation_type, log_type) is (TRUE, Event, None) when the last set_async
\* call passed true and (FALSE, RequestResponse, Tail) otherwise, the latter
\* being the values of a freshly constructed descriptor.
C2_AsyncTriple ==
    /\ InvocationTriple(self) =
          IF last_async = <<TRUE>>
          THEN <<TRUE, "Event", "None">>
          ELSE <<FALSE, "RequestResponse", "Tail">>
    /\ last_async # <<TRUE>> =>
          /\ self.invocation_type = AWSLambda.invocation_type
          /\ self.log_type = AWSLambda.log_type

\* C2 witness: set_async(false) was called on a descriptor that was in
\* asynchronous mode, and the fresh values are back.
C2_Witness ==
    /\ last_call # <<>>
    /\ last_call[1] = "set_async"
    /\ last_async = <<FALSE>>
    /\ prev_self.asynchronous_call
    /\ InvocationTriple(self) = InvocationTriple(AWSLambda)

\* C6 as stated: set_image_id sets image_id; on a descriptor whose name is
\* unset it sets the name to create_function_name(image_id), and on a
\* descriptor with a name it leaves the name as it is.
C6_AsClaimed ==
    (last_call # <<>> /\ last_call[1] = "set_image_id") =>
        /\ self.image_id = last_call[2]
        /\ prev_self.name = None => self.name = create_function_name(last_call[2])
        /\ prev_self.name # None => self.name = prev_self.name

\* The entry of the bound arguments for attr, <<>> when None or missing.
Arg(attr) == get_argument_value(args, attr)

Bound == pc = "bound"

\* The user key and the value of the variable text v, split at its first '='.
UserKey(v) == SubSeq(v, 1, RunLen(v, NameChars, 0))
UserValue(v) == SliceFrom(v, RunLen(v, NameChars, 0) + 1)

\* C3 as stated: after set_attributes bound arguments whose env attribute holds
\* KEY=value variables, the environment has the entry CONT_VAR_KEY for each,
\* with the value of the last variable supplied for that key.
C3_AsClaimed ==
    (Bound /\ Running /\ Arg("env") # <<>>) =>
        LET variables == Arg("env")[1]
        IN  \A i \in 1..Len(variables) :
                (\A j \in (i + 1)..Len(variables) :
                        UserKey(variables[j]) # UserKey(variables[i]))
                => /\ ("CONT_VAR_" \o UserKey(variables[i]))
                            \in DOMAIN self.environment
                   /\ self.environment["CONT_VAR_" \o UserKey(variables[i])]
                            = UserValue(variables[i])

\* C4 as stated: after set_attributes completes with the name N, the handler is
\* N.entrypoint and the log group /aws/lambda/N; with no name both stay unset.
C4_AsClaimed ==
    (Bound /\ Running) =>
        IF self.name # None
        THEN /\ self.handler = self.name \o ".entrypoint"
             /\ self.log_group_name = "/aws/lambda/" \o self.name
        ELSE self.handler = None /\ self.log_group_name = None

\* C4, amended: after set_attributes completes with the name N (the name of
\* the arguments when they carry one), the handler is N.lambda_handler and the
\* log group /aws/lambda/N; with no name both stay unset.
C4_HandlerDerived ==
    (Bound /\ Running) =>
        /\ Arg("name") # <<>> => self.name = Arg("name")[1]
        /\ IF self.name # None
           THEN /\ self.handler = self.name \o ".lambda_handler"
                /\ self.log_group_name = "/aws/lambda/" \o self.name
           ELSE self.handler = None /\ self.log_group_name = None

\* C4 witness: the arguments named the function f and the binding completed.
C4_Witness ==
    /\ Bound /\ Running
    /\ Arg("name") = <<"f">>
    /\ self.handler = "f.lambda_handler"
    /\ self.log_group_name = "/aws/lambda/f"

\* The existence checks requested from aws_client during the run.
ExistenceChecks ==
    { aws_calls[i][1] : i \in
        { j \in 1..Len(aws_calls) :
            aws_calls[j][1] \in {"check_function_name_exists",
                                 "check_function_name_not_exists"} } }

\* The check that fails the run when the name is taken, and the one that
\* fails it when the name is missing.
MustNotExistCheck == "check_function_name_exists"
MustExistCheck == "check_function_name_not_exists"

\* C5: when set_attributes reaches the name consistency check with a name set,
\* it requests the must-not-exist check for init and the must-exist check for
\* rm and run, each with that name; for another operation, or with no name,
\* it requests no existence check.
C5_NameCheckRequested ==
    (Bound /\ "invalid lambda function name" \notin log) =>
        /\ ExistenceChecks =
              IF self.name = None THEN {}
              ELSE IF self.scar_call = "init" THEN {MustNotExistCheck}
              ELSE IF self.scar_call \in {"rm", "run"} THEN {MustExistCheck}
              ELSE {}
        /\ \A i \in 1..Len(aws_calls) :
              aws_calls[i][1] \in {MustNotExistCheck, MustExistCheck}
                  => aws_calls[i][2] = self.name
        /\ (self.name # None /\ self.scar_call = "init" /\ last_call[2])
              => exit_status = "failed"
        /\ (self.name # None /\ self.scar_call \in {"rm", "run"} /\ ~last_call[2])
              => exit_status = "failed"

\* C5 witness: an invoke operation on a named function asked for the
\* must-exist check, and the function was there.
C5_Witness ==
    /\ Bound /\ Running
    /\ self.scar_call = "run"
    /\ self.name = "f"
    /\ ExistenceChecks = {MustExistCheck}

\* The aws_client methods that are passed the function's name.
NameMethods == {"check_function_name_exists", "check_function_name_not_exists",
                "update_function_memory", "update_function_timeout",
                "update_function_env_variables"}

\* C8 as stated: the name is never a string that fails the naming grammar, an
\* invalid name in the arguments ends the run with a failure status and leaves
\* the name as it was, and every aws_client call that passes the name passes
\* one that satisfies is_valid_name.
C8_AsClaimed ==
    /\ self.name # None => is_valid_name(self.name)
    /\ (Bound /\ Arg("name") # <<>> /\ ~is_valid_name(Arg("name")[1]))
            => exit_status = "failed" /\ self.name = prev_self.name
    /\ \A i \in 1..Len(aws_calls) :
            aws_calls[i][1] \in NameMethods => is_valid_name(aws_calls[i][2])

\* C10 as stated: after set_attributes for the invoke operation the payload
\* holds the key script when a script was supplied and the key cmd_args when
\* container arguments were supplied, both when both were; with neither the
\* payload stays the empty object.
C10_AsClaimed ==
    (Bound /\ Running /\ self.scar_call = "run") =>
        /\ Arg("script") # <<>> => "script" \in JsonKeys(self.payload)
        /\ Arg("cont_args") # <<>> => "cmd_args" \in JsonKeys(self.payload)
        /\ (Arg("script") = <<>> /\ Arg("cont_args") = <<>>) => self.payload = "{}"

\* How many entries of the archive bear the name n, and which bear the prefix.
EntryCount(n) == Cardinality({i \in 1..Len(zip_file) : zip_file[i] = n})
EntriesUnder(prefix) ==
    { i \in 1..Len(zip_file) :
        /\ Len(zip_file[i]) >= Len(prefix)
        /\ SubSeq(zip_file[i], 1, Len(prefix)) = prefix }

\* a/b/c for <<"a", "b", "c">>.
RelativePath(rel) ==
    LET f[i \in 1..Len(rel)] == IF i = 1 THEN rel[1] ELSE f[i-1] \o "/" \o rel[i]
    IN  f[Len(rel)]

\* C9 as stated: the archive built for the name N holds exactly one N.py, one
\* udocker and one library bundle; an init script adds exactly one entry,
\* init_script.sh, and the variable INIT_SCRIPT_PATH; an extra payload
\* directory with K files adds exactly K entries under extra/, each at the
\* file's path relative to the directory, however the directory is written.
C9_AsClaimed ==
    (Bound /\ Running /\ self.scar_call = "init" /\ self.name # None) =>
        /\ EntryCount(self.name \o ".py") = 1
        /\ EntryCount("udocker") = 1
        /\ EntryCount("udocker-1.1.0-RC2.tar.gz") = 1
        /\ EntryCount("init_script.sh") = (IF Arg("script") # <<>> THEN 1 ELSE 0)
        /\ ("INIT_SCRIPT_PATH" \in DOMAIN self.environment) <=> (Arg("script") # <<>>)
        /\ Len(zip_file) = 3 + (IF Arg("script") # <<>> THEN 1 ELSE 0)
                             + (IF Arg("extra_payload") # <<>>
                                THEN Cardinality(fs_files) ELSE 0)
        /\ IF Arg("extra_payload") # <<>>
           THEN /\ Cardinality(EntriesUnder("extra/")) = Cardinality(fs_files)
                /\ {zip_file[i] : i \in EntriesUnder("extra/")}
                      = {"extra/" \o RelativePath(rel) : rel \in fs_files}
           ELSE EntriesUnder("extra/") = {}

\* The config file a first run leaves behind.
CreatedConfig == FullConfig("", "512")

\* C7: a run of check_config_file that finds no config file creates it with
\* lambda_role empty, lambda_memory 512 and lambda_time 300 and ends with exit
\* status 0 without a role error; a run that finds the file with an empty
\* role ends with a failure status and the role error; a run that finds a
\* non-empty lambda_role in the file keeps running with that role.
C7_ConfigRuns ==
    [][ (pc = "start" /\ pc' = "configured") =>
          /\ config_file = <<>> =>
                /\ config_file' = <<CreatedConfig>>
                /\ config_file'[1]["lambda_role"] = ""
                /\ config_file'[1]["lambda_memory"] = "512"
                /\ config_file'[1]["lambda_time"] = "300"
                /\ exit_status' = "success"
                /\ "specify first a lambda role" \notin log'
          /\ (config_file # <<>> /\ "lambda_role" \in DOMAIN config_file[1]
                /\ config_file[1]["lambda_role"] = "") =>
                /\ exit_status' = "failed"
                /\ "specify first a lambda role" \in log'
                /\ config_file' = config_file
          /\ (config_file # <<>> /\ "lambda_role" \in DOMAIN config_file[1]
                /\ config_file[1]["lambda_role"] # "") =>
                /\ exit_status' = "running"
                /\ self'.role = config_file[1]["lambda_role"]
                /\ self'.memory = int(config_file[1]["lambda_memory"])
                /\ config_file' = config_file
      ]_vars

\* C7 witness: the run after the one that created the config file read it,
\* found the role still empty and ended with a failure status.
C7_Witness ==
    /\ pc = "configured"
    /\ config_file = <<CreatedConfig>>
    /\ exit_status = "failed"
    /\ "specify first a lambda role" \in log
    /\ "config file created" \notin log

====
